---- MODULE Spec2Model ----
(***************************************************************************)
(* Invoice manager: invoice numbering (app/utils.py), invoice storage      *)
(* (app/crud.py on the SQLite tables of app/models.py), the money          *)
(* properties of app/models.py and the e-invoice totals of                 *)
(* app/e_invoice.py.                                                       *)
(*                                                                         *)
(* Text values that the code takes apart (invoice numbers, the prefix      *)
(* setting, printed amounts) are sequences of one-character strings, so    *)
(* that LIKE, split, int() and the format specifications are computed      *)
(* character by character.  Values that are only compared as a whole       *)
(* (status, vat_enabled) are plain strings.                                *)
(***************************************************************************)
EXTENDS Integers, Sequences, FiniteSets, TLC

VARIABLES
    settings,   \* table settings: key -> value, one entry per stored row
    invoices,   \* table invoices: id -> row
    items,      \* table invoice_items, grouped by invoice_id in rowid order
    lock,       \* the request holding SQLite's write lock, 0 when free
    pc,         \* position of each create_invoice request
    req,        \* the InvoiceCreate payload of the request in flight
    num,        \* the number generate_invoice_number returned to the request
    resp,       \* what the request's caller got back
    view,       \* last InvoiceRead response (GET /api/invoices/{id})
    doc,        \* last e-invoice built by generate_peppol_xml
    clients,    \* table clients: id -> row
    export,     \* last response of POST /api/invoices/export/xml or send-eds
    issued      \* history: the numbers of the invoices created one after the
                \* other in the sequential model (SpecSeq), oldest first

vars ==
    <<settings, invoices, items, lock, pc, req, num, resp, view, doc, clients, export,
      issued>>

(***************************************************************************)
(* Bounds of the model.                                                    *)
(***************************************************************************)
MaxId == 2          \* largest invoice rowid the model inserts (one more per entry of issued)
MaxNum == 2         \* largest sequence number the model hands out
MaxItems == 3       \* longest item list of a payload in the money model
MaxHist == 2        \* rows of a pre-existing invoice table in the allocator model
MaxIssued == 3      \* invoices created one after the other in the sequential model

Procs == {1, 2}     \* concurrent requests (FastAPI runs sync handlers in a thread pool)

(***************************************************************************)
(* Characters and text.                                                    *)
(***************************************************************************)
DigitChars == <<"0", "1", "2", "3", "4", "5", "6", "7", "8", "9">>
UpperChars == <<"A", "B", "C", "D", "E", "F", "G", "H", "I", "J", "K", "L", "M",
                "N", "O", "P", "Q", "R", "S", "T", "U", "V", "W", "X", "Y", "Z">>
LowerChars == <<"a", "b", "c", "d", "e", "f", "g", "h", "i", "j", "k", "l", "m",
                "n", "o", "p", "q", "r", "s", "t", "u", "v", "w", "x", "y", "z">>

IsDigit(c) == \E i \in 1..10 : DigitChars[i] = c
DigitVal(c) == (CHOOSE i \in 1..10 : DigitChars[i] = c) - 1

\* ASCII case folding, as SQLite's LIKE applies it to both operands.
FoldCase(c) ==
    IF \E i \in 1..26 : UpperChars[i] = c
    THEN LowerChars[CHOOSE i \in 1..26 : UpperChars[i] = c]
    ELSE c

RECURSIVE Like(_, _)
\* SQLite's `s LIKE pat` with no ESCAPE clause: '%' matches any run of
\* characters, '_' any one character, every other character itself up to
\* ASCII case (the engine of database.py is SQLite and case_sensitive_like
\* is never switched on).
Like(s, pat) ==
    IF pat = <<>> THEN s = <<>>
    ELSE IF Head(pat) = "%"
         THEN Like(s, Tail(pat)) \/ (s # <<>> /\ Like(Tail(s), pat))
    ELSE IF s = <<>> THEN FALSE
    ELSE /\ (Head(pat) = "_" \/ FoldCase(Head(pat)) = FoldCase(Head(s)))
         /\ Like(Tail(s), Tail(pat))

RECURSIVE SplitDash(_)
\* str.split("-"): the parts between the dashes, empty parts included.
SplitDash(s) ==
    IF \A i \in 1..Len(s) : s[i] # "-" THEN <<s>>
    ELSE LET k == CHOOSE i \in 1..Len(s) :
                      s[i] = "-" /\ \A j \in 1..(i - 1) : s[j] # "-"
         IN <<SubSeq(s, 1, k - 1)>> \o SplitDash(SubSeq(s, k + 1, Len(s)))

\* Whether int(s) returns (rather than raising ValueError), for the texts of
\* the model: an optional '+' followed by one or more decimal digits.
IntParses(s) ==
    LET body == IF s # <<>> /\ Head(s) = "+" THEN Tail(s) ELSE s
    IN  body # <<>> /\ \A i \in 1..Len(body) : IsDigit(body[i])

RECURSIVE DigitsValue(_)
DigitsValue(s) ==
    IF s = <<>> THEN 0
    ELSE 10 * DigitsValue(SubSeq(s, 1, Len(s) - 1)) + DigitVal(s[Len(s)])

\* int(s) where IntParses(s).
IntOf(s) == DigitsValue(IF Head(s) = "+" THEN Tail(s) ELSE s)

RECURSIVE Decimal(_)
\* str(n) for n >= 0.
Decimal(n) ==
    IF n < 10 THEN <<DigitChars[n + 1]>>
    ELSE Decimal(n \div 10) \o <<DigitChars[(n % 10) + 1]>>

RECURSIVE ZeroPad(_, _)
ZeroPad(s, width) == IF Len(s) >= width THEN s ELSE ZeroPad(<<"0">> \o s, width)

\* f"{n:06d}" for n >= 0: at least six digits, more when n needs them.
Format06d(n) == ZeroPad(Decimal(n), 6)

(***************************************************************************)
(* Settings (crud.py).                                                     *)
(***************************************************************************)
\* The keys of SETTINGS_KEYS that the modelled code reads.
SETTINGS_KEYS ==
    {"invoice_prefix", "vat_enabled", "vat_number", "reg_number", "eds_api_key"}

\* get_settings: every key present, "" unless a row gives it a value, and
\* vat_enabled "true" by default.
get_settings(rows) ==
    [k \in SETTINGS_KEYS |->
        IF k \in DOMAIN rows THEN rows[k]
        ELSE IF k = "vat_enabled" THEN "true"
        ELSE IF k = "invoice_prefix" THEN <<>>
        ELSE ""]

\* dict.get(key, default) of a settings dict; settings.get(key), whose
\* default is None, is read with the default "": the code only tests such a
\* value for truth or compares it with 'true'.
dict_get(d, key, default) == IF key \in DOMAIN d THEN d[key] ELSE default

\* update_settings: an upsert of every key the request sets (a null value
\* is stored as "", like an empty one).
update_settings(rows, updates) ==
    [k \in (DOMAIN rows) \cup (DOMAIN updates) |->
        IF k \in DOMAIN updates THEN updates[k] ELSE rows[k]]

(***************************************************************************)
(* Invoice numbering (utils.py).                                           *)
(***************************************************************************)
\* Mutant: the fallback that generate_peppol_xml names for the same setting.
BuilderFallbackPrefix == <<"I", "N", "V">>

\* The prefix generate_invoice_number falls back to.
DefaultPrefix == <<"N", "C">>

\* settings.get("invoice_prefix", "NC"), then "NC" if that is empty.
ActivePrefix(rows) ==
    LET prefix == get_settings(rows)["invoice_prefix"]
    IN  IF prefix = <<>> THEN DefaultPrefix ELSE prefix

\* The rows the query's filter keeps: invoice_number LIKE '{prefix}-%'.
LikePrefix(inv, prefix) ==
    {i \in DOMAIN inv : Like(inv[i].invoice_number, prefix \o <<"-", "%">>)}

\* .order_by(Invoice.id.desc()).first(): the id of `last`, 0 for no row.
LastInvoice(inv, prefix) ==
    LET found == LikePrefix(inv, prefix)
    IN  IF found = {} THEN 0
        ELSE CHOOSE i \in found : \A j \in found : j <= i

\* Mutant: on a suffix that does not parse, go on from the number of stored
\* invoices instead of starting again at 1.
NextNumFromCount(inv, last) ==
    IF last = 0 THEN 1
    ELSE LET parts == SplitDash(inv[last].invoice_number)
         IN  IF Len(parts) >= 2 /\ IntParses(parts[Len(parts)])
             THEN IntOf(parts[Len(parts)]) + 1
             ELSE Cardinality(DOMAIN inv) + 1

\* The sequence number computed from `last` (0: there is none).
NextNum(inv, last) ==
    IF last = 0 THEN 1
    ELSE CHOOSE next_num \in
             {IF Len(parts) >= 2
              THEN IF IntParses(parts[Len(parts)])
                   THEN IntOf(parts[Len(parts)]) + 1
                   ELSE 1                     \* except ValueError
              ELSE 1 : parts \in {SplitDash(inv[last].invoice_number)}} : TRUE

\* `last` is the one row the query's .first() returned.
generate_invoice_number(inv, rows) ==
    LET prefix == ActivePrefix(rows)
    IN  CHOOSE number \in {prefix \o <<"-">> \o Format06d(NextNum(inv, last)) :
                              last \in {LastInvoice(inv, prefix)}} : TRUE

(***************************************************************************)
(* Tables (models.py) and the payloads of the requests (schemas.py).       *)
(***************************************************************************)
\* A function without the argument k.
Without(f, k) == [x \in (DOMAIN f) \ {k} |-> f[x]]

\* A function with f[k] = v added or replaced.
With(f, k, v) == [x \in (DOMAIN f) \cup {k} |-> IF x = k THEN v ELSE f[x]]

\* An invoice_items row: quantity in tenths, unit_price in cents, vat_rate in
\* percent.
Item(q, p, r) == [quantity |-> q, unit_price |-> p, vat_rate |-> r]

ItemA == Item(20, 1000, 21)     \* 2 x 10.00 at 21 %
ItemB == Item(10, 500, 0)       \* 1 x 5.00 at 0 %
ItemC == Item(10, 3, 21)        \* 1 x 0.03 at 21 %
ItemD == Item(3, 1, 21)         \* 0.3 x 0.01 at 21 %

\* invoices.id is INTEGER PRIMARY KEY without AUTOINCREMENT: SQLite gives a
\* new row the largest rowid in the table plus one.
NextRowId(inv) ==
    IF DOMAIN inv = {} THEN 1
    ELSE (CHOOSE i \in DOMAIN inv : \A j \in DOMAIN inv : j <= i) + 1

\* Mutant: the column without its unique constraint.
NoUniqueConstraint(inv, number) == FALSE

\* Column invoice_number is unique=True: the INSERT of a number that a stored
\* row holds raises IntegrityError.
UniqueViolation(inv, number) ==
    \E i \in DOMAIN inv : inv[i].invoice_number = number

\* A datetime.date.
Date(y, m, d) == [year |-> y, month |-> m, day |-> d]

\* str(date): date.isoformat(), 'YYYY-MM-DD'.
IsoFormat(date) ==
    ZeroPad(Decimal(date.year), 4) \o <<"-">> \o ZeroPad(Decimal(date.month), 2)
        \o <<"-">> \o ZeroPad(Decimal(date.day), 2)

\* The row create_invoice adds; status takes the column default.
NewInvoice(number, data) ==
    [invoice_number |-> number, client_id |-> data.client_id, date |-> data.date,
     status |-> "sent"]

\* A clients row; reg_number and vat_number are "" by default.
Client(name, reg, vat) == [name |-> name, reg_number |-> reg, vat_number |-> vat]

\* Mutant: the items are written (and kept) before the invoice row is
\* flushed.
ItemsKeptAfterFailedFlush(itm, id, data) == With(itm, id, data.items)

\* invoice_items after an IntegrityError at db.flush(): the items are added
\* to the session only after the flush, and get_db closes the session
\* without a commit.
ItemsAfterFailedFlush(itm, id, data) == itm

\* The fields of schemas.InvoiceUpdate that the model carries.
InvoiceUpdateFields == {"client_id", "status", "items"}

\* Mutant: a schema that lets undeclared keys through (extra = "allow").
InvoiceUpdateDumpExtra(body) == body

\* InvoiceUpdate(**body).model_dump(exclude_unset=True): the declared fields
\* the body sets; pydantic drops every other key of the body.  (A field set
\* to null is skipped by update_invoice, like a field that is not set.)
InvoiceUpdateDump(body) ==
    [k \in (DOMAIN body) \cap InvoiceUpdateFields |-> body[k]]

\* update_invoice's setattr loop over update_data without "items".
ApplyUpdate(row, update_data) ==
    [c \in (DOMAIN row) \cup ((DOMAIN update_data) \ {"items"}) |->
        IF c \in DOMAIN update_data THEN update_data[c] ELSE row[c]]

(***************************************************************************)
(* Money.  The code computes in binary floats; the model computes the same *)
(* values as exact decimals in fixed point: quantities in tenths, prices   *)
(* and the Calculator's results in cents, the Builder's running sums in    *)
(* 10^-5 EUR.  None of the item values of the model is a rounding tie, so  *)
(* that the float and the exact decimal round to the same cent.            *)
(***************************************************************************)
\* x / scale rounded to the nearest integer, a tie to the even one: Python's
\* round(v, 2) and f"{v:.2f}" for v = x / (100 * scale), x >= 0.
RoundHalfEven(x, scale) ==
    LET q == x \div scale
        r == x % scale
    IN  IF 2 * r > scale \/ (2 * r = scale /\ q % 2 = 1) THEN q + 1 ELSE q

RECURSIVE SumSeq(_)
\* sum(...) over a sequence of numbers.
SumSeq(s) == IF s = <<>> THEN 0 ELSE Head(s) + SumSeq(Tail(s))

\* InvoiceItem.total, in cents.
item_total(it) == RoundHalfEven(it.quantity * it.unit_price, 10)

\* InvoiceItem.vat_amount, in cents.
item_vat_amount(it) == RoundHalfEven(item_total(it) * it.vat_rate, 100)

\* InvoiceItem.total_with_vat, in cents.
item_total_with_vat(it) == RoundHalfEven(item_total(it) + item_vat_amount(it), 1)

\* Invoice.subtotal, in cents.
subtotal(its) ==
    RoundHalfEven(SumSeq([i \in 1..Len(its) |-> item_total(its[i])]), 1)

\* Mutant: the VAT of the lines accumulated unrounded and rounded once.
vat_amount_rounded_once(its) ==
    RoundHalfEven(SumSeq([i \in 1..Len(its) |->
                     its[i].quantity * its[i].unit_price * its[i].vat_rate]), 1000)

\* Invoice.vat_amount, in cents.
vat_amount(its) ==
    RoundHalfEven(SumSeq([i \in 1..Len(its) |-> item_vat_amount(its[i])]), 1)

\* Mutant: a grand total that leaves the VAT out.
grand_total_without_vat(its) == RoundHalfEven(subtotal(its), 1)

\* Invoice.grand_total, in cents.
grand_total(its) == RoundHalfEven(subtotal(its) + vat_amount(its), 1)

\* f"{v:.2f}" for v = x / (100 * scale), x >= 0.
Fmt2(x, scale) ==
    LET c == RoundHalfEven(x, scale)
    IN  Decimal(c \div 100) \o <<".">> \o ZeroPad(Decimal(c % 100), 2)

\* Mutant: the line's stored rate, whatever the vat_enabled setting.
LineVatRateStored(it, s) == it.vat_rate

\* generate_peppol_xml, vat_rate of a line: the item's rate, 0 unless the
\* vat_enabled setting is 'true'.
LineVatRate(it, s) ==
    IF dict_get(s, "vat_enabled", "") = "true" THEN it.vat_rate ELSE 0

\* generate_peppol_xml, tax_excl of a line (= line_total), in 10^-5 EUR.
tax_excl(it) == it.quantity * it.unit_price * 100

\* generate_peppol_xml, tax_incl of a line, in 10^-5 EUR.
tax_incl(it, s) == it.quantity * it.unit_price * (100 + LineVatRate(it, s))

\* f"{vat_rate:.2f}" of a rate in whole percents: the key of tax_subtotals
\* and the text of Percent.
RateKey(rate) == Fmt2(rate * 100, 1)

RECURSIVE RateKeys(_, _)
\* The keys of the dict tax_subtotals after the loop over the items, in the
\* order in which the loop inserted them.
RateKeys(its, s) ==
    IF its = <<>> THEN <<>>
    ELSE LET front == RateKeys(SubSeq(its, 1, Len(its) - 1), s)
             key == RateKey(LineVatRate(its[Len(its)], s))
         IN  IF \E j \in 1..Len(front) : front[j] = key THEN front
             ELSE Append(front, key)

\* Mutant: one TaxSubtotal block per line, no grouping by rate.
tax_subtotals_per_line(its, s) ==
    [i \in 1..Len(its) |->
        [TaxableAmount |-> Fmt2(tax_excl(its[i]), 1000),
         TaxAmount |-> Fmt2(tax_incl(its[i], s) - tax_excl(its[i]), 1000),
         ID |-> IF LineVatRate(its[i], s) > 0 THEN "S" ELSE "E",
         Percent |-> RateKey(LineVatRate(its[i], s))]]

\* generate_peppol_xml, the TaxSubtotal blocks: one per key of
\* tax_subtotals, with the base and the amount accumulated over the lines
\* of that key and the rate of the first of them.
tax_subtotals(its, s) ==
    LET keys == RateKeys(its, s)
        rate(i) == LineVatRate(its[i], s)
        group(j) == {i \in 1..Len(its) : RateKey(rate(i)) = keys[j]}
        first(j) == CHOOSE i \in group(j) : \A k \in group(j) : i <= k
    IN  [j \in 1..Len(keys) |->
            [TaxableAmount |->
                 Fmt2(SumSeq([i \in 1..Len(its) |->
                         IF i \in group(j) THEN tax_excl(its[i]) ELSE 0]), 1000),
             TaxAmount |->
                 Fmt2(SumSeq([i \in 1..Len(its) |->
                         IF i \in group(j)
                         THEN tax_incl(its[i], s) - tax_excl(its[i]) ELSE 0]), 1000),
             ID |-> IF rate(first(j)) > 0 THEN "S" ELSE "E",
             Percent |-> RateKey(rate(first(j)))]]

\* generate_peppol_xml, EndpointID of a party with the given VAT and
\* registration numbers (the settings' for the supplier, the client's for
\* the customer; None and "" are both false).
EndpointID(vat_number, reg_number) ==
    [schemeID |-> IF vat_number # "" THEN "9936" ELSE "0184",
     text |-> IF vat_number # "" THEN vat_number
              ELSE IF reg_number # "" THEN reg_number
              ELSE "UNKNOWN"]

\* Mutant: the supplier's block emitted whenever a VAT number is set.
SupplierTaxSchemeAnyway(s) ==
    IF dict_get(s, "vat_number", "") # ""
    THEN <<[CompanyID |-> dict_get(s, "vat_number", "")]>>
    ELSE <<>>

\* generate_peppol_xml, the supplier's PartyTaxScheme: the blocks emitted
\* (none or one).
SupplierTaxScheme(s) ==
    IF dict_get(s, "vat_enabled", "") = "true" /\ dict_get(s, "vat_number", "") # ""
    THEN <<[CompanyID |-> dict_get(s, "vat_number", "")]>>
    ELSE <<>>

\* getattr(obj, name, None) on a row: the attribute, or "" (for None) when
\* the row has no such attribute.  models.Client has none called `address`
\* (its column is legal_address).
getattr(obj, name) == IF name \in DOMAIN obj THEN obj[name] ELSE ""

\* generate_peppol_xml, the customer's PostalZone: the elements emitted.
CustomerPostalZone(client) ==
    IF getattr(client, "postal_code") # "" THEN <<getattr(client, "postal_code")>>
    ELSE <<>>

\* Mutant: a builder that reads the settings with settings[key], which
\* raises KeyError for a key the dict does not hold.
generate_peppol_xml_indexing_raises(found, s) ==
    ~found \/ \E k \in {"invoice_prefix", "vat_enabled", "vat_number", "reg_number"} :
                  k \notin DOMAIN s

\* Whether generate_peppol_xml raises, given whether the caller found the
\* clients row: client.name of None raises AttributeError; the settings are
\* read with .get and the client's other fields with getattr and a default,
\* which raise for no dict and no row.
generate_peppol_xml_raises(found, s) == ~found

\* generate_peppol_xml, the customer's PartyTaxScheme: the blocks emitted.
CustomerTaxScheme(client) ==
    IF client.vat_number # "" THEN <<[CompanyID |-> client.vat_number]>> ELSE <<>>

\* generate_peppol_xml(invoice, client, settings): the elements of the
\* document that the properties read, texts as printed.  `invoice` is the
\* ORM object (the row, its id and its items), `s` the settings dict: the
\* one of get_settings, or any other dict (test_xml.py passes the raw rows).
generate_peppol_xml(invoice, client, s) ==
    LET its == invoice.items
        tax_exclusive_amount == SumSeq([i \in 1..Len(its) |-> tax_excl(its[i])])
        tax_inclusive_amount == SumSeq([i \in 1..Len(its) |-> tax_incl(its[i], s)])
        payable_amount == tax_inclusive_amount
    IN  [invoice_id |-> invoice.id,
         ID |-> dict_get(s, "invoice_prefix", <<"I", "N", "V">>)
                    \o <<"-">> \o Format06d(invoice.id),
         IssueDate |-> IsoFormat(invoice.date),
         SupplierEndpointID |-> EndpointID(dict_get(s, "vat_number", ""),
                                           dict_get(s, "reg_number", "")),
         SupplierPartyTaxScheme |-> SupplierTaxScheme(s),
         CustomerEndpointID |-> EndpointID(client.vat_number, client.reg_number),
         CustomerPartyTaxScheme |-> CustomerTaxScheme(client),
         CustomerStreetName |-> getattr(client, "address"),
         CustomerPostalZone |-> CustomerPostalZone(client),
         TaxAmount |-> Fmt2(tax_inclusive_amount - tax_exclusive_amount, 1000),
         TaxSubtotals |-> tax_subtotals(its, s),
         LineExtensionAmount |-> Fmt2(tax_exclusive_amount, 1000),
         TaxExclusiveAmount |-> Fmt2(tax_exclusive_amount, 1000),
         TaxInclusiveAmount |-> Fmt2(tax_inclusive_amount, 1000),
         PayableAmount |-> Fmt2(payable_amount, 1000),
         InvoiceLines |-> [i \in 1..Len(its) |->
                             [ID |-> Decimal(i),
                              LineExtensionAmount |-> Fmt2(tax_excl(its[i]), 1000),
                              TaxCategoryID |->
                                  IF LineVatRate(its[i], s) > 0 THEN "S" ELSE "E",
                              Percent |-> RateKey(LineVatRate(its[i], s))]]]

RECURSIVE XmlEscape(_)
\* ElementTree's escaping of element text when it serializes.
XmlEscape(s) ==
    IF s = <<>> THEN <<>>
    ELSE (IF Head(s) = "&" THEN <<"&", "a", "m", "p", ";">>
          ELSE IF Head(s) = "<" THEN <<"&", "l", "t", ";">>
          ELSE IF Head(s) = ">" THEN <<"&", "g", "t", ";">>
          ELSE <<Head(s)>>) \o XmlEscape(Tail(s))

\* generate_peppol_xml, the dict ns: the namespace URI of each key.
ns ==
    [cac |-> "urn:oasis:names:specification:ubl:schema:xsd:CommonAggregateComponents-2",
     cbc |-> "urn:oasis:names:specification:ubl:schema:xsd:CommonBasicComponents-2",
     default |-> "urn:oasis:names:specification:ubl:schema:xsd:Invoice-2"]

\* The qualified tags {uri}local of the elements generate_peppol_xml puts in
\* the tree of the document d, as [key of ns, local name]; the attributes
\* (schemeID, currencyID, unitCode) are unqualified.
ElementTags(d) ==
    {[ns |-> "default", tag |-> "Invoice"]}
    \cup {[ns |-> "cbc", tag |-> t] :
             t \in {"CustomizationID", "ProfileID", "ID", "IssueDate", "DueDate",
                    "InvoiceTypeCode", "DocumentCurrencyCode", "EndpointID", "Name",
                    "StreetName", "CityName", "IdentificationCode", "RegistrationName",
                    "CompanyID", "PaymentMeansCode", "TaxAmount", "LineExtensionAmount",
                    "TaxExclusiveAmount", "TaxInclusiveAmount", "PayableAmount"}}
    \cup {[ns |-> "cac", tag |-> t] :
             t \in {"AccountingSupplierParty", "Party", "PartyName", "PostalAddress",
                    "Country", "PartyLegalEntity", "AccountingCustomerParty",
                    "PaymentMeans", "PayeeFinancialAccount",
                    "FinancialInstitutionBranch", "TaxTotal", "LegalMonetaryTotal"}}
    \cup (IF d.CustomerPostalZone # <<>>
          THEN {[ns |-> "cbc", tag |-> "PostalZone"]} ELSE {})
    \cup (IF d.SupplierPartyTaxScheme # <<>> \/ d.CustomerPartyTaxScheme # <<>>
          THEN {[ns |-> "cac", tag |-> "PartyTaxScheme"], [ns |-> "cac", tag |-> "TaxScheme"]}
          ELSE {})
    \cup (IF d.TaxSubtotals # <<>>
          THEN {[ns |-> "cac", tag |-> "TaxSubtotal"], [ns |-> "cac", tag |-> "TaxCategory"],
                [ns |-> "cac", tag |-> "TaxScheme"],
                [ns |-> "cbc", tag |-> "TaxableAmount"], [ns |-> "cbc", tag |-> "Percent"]}
          ELSE {})
    \cup (IF d.InvoiceLines # <<>>
          THEN {[ns |-> "cac", tag |-> "InvoiceLine"], [ns |-> "cac", tag |-> "Item"],
                [ns |-> "cac", tag |-> "ClassifiedTaxCategory"],
                [ns |-> "cac", tag |-> "TaxScheme"], [ns |-> "cac", tag |-> "Price"],
                [ns |-> "cbc", tag |-> "InvoicedQuantity"],
                [ns |-> "cbc", tag |-> "Percent"], [ns |-> "cbc", tag |-> "PriceAmount"]}
          ELSE {})

\* Mutant: the prefixes without the call ET.register_namespace('', ns['']):
\* ElementTree then invents a prefix for the invoice namespace.
namespace_prefix_unregistered(uri) ==
    IF uri = ns["cac"] THEN "cac" ELSE IF uri = ns["cbc"] THEN "cbc" ELSE "ns0"

\* ElementTree's prefix of a namespace URI after the three calls of
\* ET.register_namespace: '' (no prefix) for the invoice namespace.
namespace_prefix(uri) ==
    IF uri = ns["cac"] THEN "cac" ELSE IF uri = ns["cbc"] THEN "cbc"
    ELSE IF uri = ns["default"] THEN "" ELSE "ns0"

\* The xmlns attributes ElementTree writes on the root: one for every
\* namespace URI that a tag of the tree uses.
xmlns(tags) ==
    {[prefix |-> namespace_prefix(ns[t.ns]), uri |-> ns[t.ns]] : t \in tags}

\* ElementTree.write, the prolog: written when xml_declaration is true, with
\* the encoding as it was passed.
xml_declaration(encoding, declared) ==
    IF declared
    THEN <<"<?xml version='1.0' encoding='", encoding, "'?>", "\n">>
    ELSE <<>>

\* ET.tostring(root, encoding='UTF-8', xml_declaration=True): the prolog,
\* the codec of the bytes, the namespace declarations of the root and the
\* document with its element texts escaped.  (The texts of the model other than the
\* ID hold no '&', '<' or '>'; those kept as whole strings are written as
\* they are.)
ET_tostring(d) ==
    [d EXCEPT !.ID = XmlEscape(@),
              !.IssueDate = XmlEscape(@),
              !.PayableAmount = XmlEscape(@)]
        @@ [declaration |-> xml_declaration("UTF-8", TRUE),
            encoding |-> "UTF-8",
            xmlns |-> xmlns(ElementTags(d))]

\* crud.get_invoice for a stored id: the row with its id and its items.
get_invoice(inv, itm, id) ==
    [id |-> id,
     invoice_number |-> inv[id].invoice_number,
     client_id |-> inv[id].client_id,
     date |-> inv[id].date,
     status |-> inv[id].status,
     items |-> itm[id]]

\* export_xml_invoices: f"E-Invoice_{prefix}-{invoice.invoice_number}.xml",
\* prefix being settings.get('invoice_prefix', 'NC') of get_settings' dict,
\* which always holds the key.
ExportFilename(s, number) ==
    <<"E", "-", "I", "n", "v", "o", "i", "c", "e", "_">>
        \o dict_get(s, "invoice_prefix", DefaultPrefix)
        \o <<"-">> \o number \o <<".", "x", "m", "l">>

\* Mutant: a builder that writes into each document how many documents the
\* request has built so far.
xml_files_numbered(ids, inv, itm, cl, s) ==
    LET found == SelectSeq(ids, LAMBDA i : i \in DOMAIN inv)
    IN  [k \in 1..Len(found) |->
            [filename |-> ExportFilename(s, inv[found[k]].invoice_number),
             content |-> [ET_tostring(generate_peppol_xml(
                              get_invoice(inv, itm, found[k]),
                              cl[inv[found[k]].client_id], s))
                          EXCEPT !.IssueDate = @ \o Decimal(k)]]]

\* export_xml_invoices, the list xml_files: one (filename, xml_bytes) pair
\* for every requested id that get_invoice finds, in the order of the
\* request.
xml_files(ids, inv, itm, cl, s) ==
    LET found == SelectSeq(ids, LAMBDA i : i \in DOMAIN inv)
    IN  [k \in 1..Len(found) |->
            [filename |-> ExportFilename(s, inv[found[k]].invoice_number),
             content |-> ET_tostring(generate_peppol_xml(
                             get_invoice(inv, itm, found[k]),
                             cl[inv[found[k]].client_id], s))]]

\* schemas.InvoiceRead built from the ORM row (from_attributes): the money
\* fields are the properties of models.Invoice and models.InvoiceItem.
InvoiceRead(id, row, its) ==
    [id |-> id,
     invoice_number |-> row.invoice_number,
     status |-> row.status,
     subtotal |-> subtotal(its),
     vat_amount |-> vat_amount(its),
     grand_total |-> grand_total(its),
     items |-> [i \in 1..Len(its) |->
                  [total |-> item_total(its[i]),
                   vat_amount |-> item_vat_amount(its[i]),
                   total_with_vat |-> item_total_with_vat(its[i])]]]

(***************************************************************************)
(* The requests of the storage model.                                      *)
(***************************************************************************)
CreateBodies == {[client_id |-> 1, date |-> Date(2025, 1, 5), items |-> <<ItemA>>]}

UpdateBodies ==
    {[status |-> "paid"],
     [items |-> <<ItemA>>,
      invoice_number |-> <<"N", "C", "-", "0", "0", "0", "0", "0", "1">>]}

PrefixValues == {<<"N", "C">>, <<"n", "c">>}

NoBody == [client_id |-> 0, date |-> Date(1, 1, 1), items |-> <<>>]

NoInvoices == [i \in {} |-> 0]
NoView == [id |-> 0]
NoDoc == [invoice_id |-> 0]
NoExport == [status_code |-> 0]

Init ==
    /\ settings = [k \in {} |-> 0]
    /\ invoices = NoInvoices
    /\ items = NoInvoices
    /\ clients = NoInvoices
    /\ lock = 0
    /\ pc = [p \in Procs |-> "idle"]
    /\ req = [p \in Procs |-> NoBody]
    /\ num = [p \in Procs |-> <<>>]
    /\ resp = [p \in Procs |-> "none"]
    /\ view = NoView
    /\ doc = NoDoc
    /\ export = NoExport
    /\ issued = <<>>

\* create_invoice, first statement: generate_invoice_number reads the
\* settings and the last matching row.  pysqlite opens no transaction for a
\* SELECT, so the read takes no lock.
CreateGenerate(p, data) ==
    /\ pc[p] = "idle"
    /\ num' = [num EXCEPT ![p] = generate_invoice_number(invoices, settings)]
    /\ req' = [req EXCEPT ![p] = data]
    /\ pc' = [pc EXCEPT ![p] = "generated"]
    /\ resp' = [resp EXCEPT ![p] = "none"]
    /\ UNCHANGED <<settings, invoices, items, lock, view, doc, clients, export, issued>>

\* Mutant: create_invoice catches the IntegrityError and tries again with a
\* newly computed number.
CreateFlushRetrying(p) ==
    /\ pc[p] = "generated"
    /\ lock = 0
    /\ IF UniqueViolation(invoices, num[p])
       THEN /\ num' = [num EXCEPT ![p] = generate_invoice_number(invoices, settings)]
            /\ UNCHANGED <<invoices, items, lock, pc, resp, req>>
       ELSE /\ NextRowId(invoices) <= MaxId + Len(issued)
            /\ pc' = [pc EXCEPT ![p] = "flushed"]
            /\ lock' = p
            /\ UNCHANGED <<invoices, items, resp, req, num>>
    /\ UNCHANGED <<settings, view, doc, clients, export, issued>>

\* create_invoice, db.add(invoice); db.flush(): the INSERT takes the write
\* lock (it waits while another request holds it).  A duplicate number makes
\* it raise IntegrityError, which create_invoice does not catch: the request
\* ends with that error.
CreateFlush(p) ==
    /\ pc[p] = "generated"
    /\ lock = 0
    /\ IF UniqueViolation(invoices, num[p])
       THEN /\ pc' = [pc EXCEPT ![p] = "idle"]
            /\ resp' = [resp EXCEPT ![p] = "IntegrityError"]
            /\ items' = ItemsAfterFailedFlush(items, NextRowId(invoices), req[p])
            /\ req' = [req EXCEPT ![p] = NoBody]
            /\ num' = [num EXCEPT ![p] = <<>>]
            /\ UNCHANGED <<invoices, lock>>
       ELSE /\ NextRowId(invoices) <= MaxId + Len(issued)
            /\ pc' = [pc EXCEPT ![p] = "flushed"]
            /\ lock' = p
            /\ UNCHANGED <<invoices, items, resp, req, num>>
    /\ UNCHANGED <<settings, view, doc, clients, export, issued>>

\* create_invoice, the item loop and db.commit(): the invoice row and its
\* items become visible together and the lock is released.
CreateCommit(p) ==
    /\ pc[p] = "flushed"
    /\ LET id == NextRowId(invoices)
       IN  /\ invoices' = With(invoices, id, NewInvoice(num[p], req[p]))
           /\ items' = With(items, id, req[p].items)
    /\ lock' = 0
    /\ pc' = [pc EXCEPT ![p] = "idle"]
    /\ resp' = [resp EXCEPT ![p] = "created"]
    /\ req' = [req EXCEPT ![p] = NoBody]
    /\ num' = [num EXCEPT ![p] = <<>>]
    /\ UNCHANGED <<settings, view, doc, clients, export, issued>>

\* update_invoice(invoice_id, body); an unknown id returns None.
UpdateInvoice(id, body) ==
    /\ lock = 0
    /\ id \in DOMAIN invoices
    /\ LET update_data == InvoiceUpdateDump(body)
       IN  /\ invoices' = [invoices EXCEPT ![id] = ApplyUpdate(@, update_data)]
           /\ items' = IF "items" \in DOMAIN update_data
                       THEN With(Without(items, id), id, update_data["items"])
                       ELSE items
    /\ UNCHANGED <<settings, lock, pc, req, num, resp, view, doc, clients, export, issued>>

\* Mutant: a delete that removes the invoices row only (a relationship
\* without cascade on a connection that does not enforce foreign keys).
ItemsKeptAfterDelete(itm, id) == itm

\* invoice_items after db.delete(invoice): the relationship Invoice.items has
\* cascade="all, delete-orphan", so the unit of work deletes the items too.
ItemsAfterDelete(itm, id) == Without(itm, id)

\* delete_invoice(invoice_id): db.delete(invoice) and, by the relationship's
\* cascade="all, delete-orphan", its items.
DeleteInvoice(id) ==
    /\ lock = 0
    /\ id \in DOMAIN invoices
    /\ invoices' = Without(invoices, id)
    /\ items' = ItemsAfterDelete(items, id)
    /\ UNCHANGED <<settings, lock, pc, req, num, resp, view, doc, clients, export, issued>>

\* delete_invoices_bulk, the loop: crud.delete_invoice for every id of the
\* request in turn, an id that is not stored (any more) being skipped.
RECURSIVE delete_invoices_bulk(_, _, _)
delete_invoices_bulk(inv, itm, invoice_ids) ==
    IF invoice_ids = <<>> THEN [invoices |-> inv, items |-> itm, deleted |-> 0]
    ELSE LET iid == Head(invoice_ids)
         IN  IF iid \in DOMAIN inv
             THEN [delete_invoices_bulk(Without(inv, iid), ItemsAfterDelete(itm, iid),
                                        Tail(invoice_ids))
                      EXCEPT !.deleted = @ + 1]
             ELSE delete_invoices_bulk(inv, itm, Tail(invoice_ids))

\* POST /api/invoices/bulk-delete with the list invoice_ids.
BulkDelete(invoice_ids) ==
    /\ lock = 0
    /\ LET after == delete_invoices_bulk(invoices, items, invoice_ids)
       IN  /\ invoices' = after.invoices
           /\ items' = after.items
    /\ UNCHANGED <<settings, lock, pc, req, num, resp, view, doc, clients, export, issued>>

\* PUT /api/settings with a body that sets invoice_prefix.
SetPrefix(value) ==
    /\ lock = 0
    /\ settings' = update_settings(settings, [k \in {"invoice_prefix"} |-> value])
    /\ UNCHANGED <<invoices, items, lock, pc, req, num, resp, view, doc, clients, export, issued>>

\* The sequence number the next create_invoice would hand out.
UpcomingNum == NextNum(invoices, LastInvoice(invoices, ActivePrefix(settings)))

Next ==
    \/ \E p \in Procs, data \in CreateBodies :
          UpcomingNum <= MaxNum /\ CreateGenerate(p, data)
    \/ \E p \in Procs : CreateFlush(p)
    \/ \E p \in Procs : CreateCommit(p)
    \/ \E id \in 1..MaxId, body \in UpdateBodies : UpdateInvoice(id, body)
    \/ \E id \in 1..MaxId : DeleteInvoice(id)
    \/ \E value \in PrefixValues : SetPrefix(value)

Spec == Init /\ [][Next]_vars

(***************************************************************************)
(* The allocator on a given invoice table (SpecAlloc): the table and the   *)
(* prefix setting are drawn, requests compute their number from them.      *)
(***************************************************************************)
Number(prefix, n) == prefix \o <<"-">> \o Format06d(n)

\* Numbers of a table that exists before the requests: handed out under the
\* prefixes NC, nc, X and NC-A, and one that was not.
LegacyNumbers ==
    {Number(<<"N", "C">>, 1), Number(<<"n", "c">>, 2), Number(<<"N", "C">>, 7),
     Number(<<"X">>, 3), Number(<<"N", "C", "-", "A">>, 1),
     <<"N", "C", "-", "a", "b", "c">>}

LegacyTables ==
    {[i \in DOMAIN f |-> NewInvoice(f[i], [client_id |-> 1, date |-> Date(2024, 12, 31)])] :
        f \in {g \in UNION {[1..k -> LegacyNumbers] : k \in 0..MaxHist} :
                  \A i, j \in DOMAIN g : i # j => g[i] # g[j]}}

AllocPrefixes == {<<>>, <<"N", "C">>, <<"n", "c">>, <<"X">>, <<"N", "_">>}

InitAlloc ==
    /\ settings \in {[k \in {} |-> 0]} \cup
                    {[k \in {"invoice_prefix"} |-> v] : v \in AllocPrefixes}
    /\ invoices \in LegacyTables
    /\ items = [i \in DOMAIN invoices |-> <<>>]
    /\ clients = [i \in {1} |-> Client("Client", "", "")]
    /\ lock = 0
    /\ pc = [p \in Procs |-> "idle"]
    /\ req = [p \in Procs |-> NoBody]
    /\ num = [p \in Procs |-> <<>>]
    /\ resp = [p \in Procs |-> "none"]
    /\ view = NoView
    /\ doc = NoDoc
    /\ export = NoExport
    /\ issued = <<>>

NextAlloc == \E p \in Procs, data \in CreateBodies : CreateGenerate(p, data)

SpecAlloc == InitAlloc /\ [][NextAlloc]_vars

(***************************************************************************)
(* The Calculator and the Builder on a stored invoice (SpecCalc): the      *)
(* invoice's items and the vat_enabled setting are drawn, then the invoice *)
(* is read and exported.                                                   *)
(***************************************************************************)
CalcItems == {ItemA, ItemB, ItemC, ItemD}

ItemLists == UNION {[1..k -> CalcItems] : k \in 0..MaxItems}

\* The bodies of the export requests: lists of up to two ids, 0 being an id
\* that no invoice has.
ExportRequests == UNION {[1..k -> 0..MaxId] : k \in 0..2}

\* The requests for one invoice.
SingleRequests == {ids \in ExportRequests : Len(ids) = 1}

InitCalc ==
    /\ settings \in {[k \in {} |-> 0]} \cup
                    {[k \in {"vat_enabled"} |-> v] : v \in {"true", "false", ""}}
    /\ invoices = [i \in {1, 2} |->
                      NewInvoice(Number(DefaultPrefix, i),
                                 [client_id |-> 1, date |-> Date(2025, 1, 5)])]
    /\ items \in {[i \in {1, 2} |-> IF i = 1 THEN its ELSE <<ItemA>>] : its \in ItemLists}
    /\ clients = [i \in {1} |-> Client("Client", "R1", "")]
    /\ lock = 0
    /\ pc = [p \in Procs |-> "idle"]
    /\ req = [p \in Procs |-> NoBody]
    /\ num = [p \in Procs |-> <<>>]
    /\ resp = [p \in Procs |-> "none"]
    /\ view = NoView
    /\ doc = NoDoc
    /\ export = NoExport
    /\ issued = <<>>

\* GET /api/invoices/{invoice_id}; an unknown id is answered 404.
ReadInvoice(id) ==
    /\ id \in DOMAIN invoices
    /\ view' = InvoiceRead(id, invoices[id], items[id])
    /\ UNCHANGED <<settings, invoices, items, lock, pc, req, num, resp, doc, clients, export,
                   issued>>

\* POST /api/invoices/export/xml with the body {invoice_ids: ids}: 404 when
\* none of the ids is found, the XML of the one document when one was
\* built, a zip archive of all of them otherwise.  (The model exports
\* invoices whose client row is stored.)
ExportXml(ids) ==
    /\ \A k \in 1..Len(ids) :
          ids[k] \in DOMAIN invoices => invoices[ids[k]].client_id \in DOMAIN clients
    /\ LET s == get_settings(settings)
           files == xml_files(ids, invoices, items, clients, s)
           found == SelectSeq(ids, LAMBDA i : i \in DOMAIN invoices)
       IN  /\ export' =
                 IF Len(found) = 0 THEN [status_code |-> 404]
                 ELSE IF Len(found) = 1
                 THEN [status_code |-> 200,
                       media_type |-> "application/xml",
                       filename |-> files[1].filename,
                       content |-> files[1].content]
                 ELSE [status_code |-> 200,
                       media_type |-> "application/zip",
                       filename |-> <<"e", "_", "i", "n", "v", "o", "i", "c", "e", "s",
                                      ".", "z", "i", "p">>,
                       entries |-> files]
           /\ doc' = IF found = <<>> THEN doc
                     ELSE generate_peppol_xml(
                              get_invoice(invoices, items, found[Len(found)]),
                              clients[invoices[found[Len(found)]].client_id], s)
    /\ UNCHANGED <<settings, invoices, items, lock, pc, req, num, resp, view, clients, issued>>

NextCalc ==
    \/ \E id \in DOMAIN invoices : ReadInvoice(id)
    \/ \E ids \in SingleRequests : ExportXml(ids)

SpecCalc == InitCalc /\ [][NextCalc]_vars

(***************************************************************************)
(* The Builder and the export on drawn settings and client (SpecExport):   *)
(* two invoices of one client are stored, the issuer's settings and the    *)
(* client's numbers are drawn, then invoices are exported, one or several  *)
(* per request.                                                            *)
(***************************************************************************)
\* A settings table without the key, or with one of the values.
Optional(key, values) == {[k \in {} |-> 0]} \cup {[k \in {key} |-> v] : v \in values}

ExportSettings ==
    {p @@ e @@ v @@ r :
        p \in Optional("invoice_prefix", {<<>>, <<"N", "C">>, <<"A", "&">>}),
        e \in Optional("vat_enabled", {"false"}),
        v \in Optional("vat_number", {"LV40003"}),
        r \in Optional("reg_number", {"40003"})}

ExportClients ==
    {Client("Client", r, v) : r \in {"", "50003"}, v \in {"", "LV50003"}}

InitExport ==
    /\ settings \in ExportSettings
    /\ invoices = [i \in {1, 2} |->
                      NewInvoice(Number(DefaultPrefix, i + 1),
                                 [client_id |-> 1, date |-> Date(2025, 1, 5)])]
    /\ items = [i \in {1, 2} |-> IF i = 1 THEN <<ItemA, ItemB>> ELSE <<ItemC>>]
    /\ clients \in {[i \in {1} |-> c] : c \in ExportClients}
    /\ lock = 0
    /\ pc = [p \in Procs |-> "idle"]
    /\ req = [p \in Procs |-> NoBody]
    /\ num = [p \in Procs |-> <<>>]
    /\ resp = [p \in Procs |-> "none"]
    /\ view = NoView
    /\ doc = NoDoc
    /\ export = NoExport
    /\ issued = <<>>

NextExport == \E ids \in ExportRequests : ExportXml(ids)

SpecExport == InitExport /\ [][NextExport]_vars

(***************************************************************************)
(* Editing invoices (SpecEdit): one request after the other creates       *)
(* invoices, replaces their items with update_invoice and reads them.      *)
(***************************************************************************)
EditCreateBodies ==
    CreateBodies \cup
        {[client_id |-> 1, date |-> Date(2025, 1, 5), items |-> <<ItemC, ItemD>>]}

EditBodies ==
    {[status |-> "paid"]} \cup
        {[items |-> its] : its \in {<<>>, <<ItemA, ItemB>>, <<ItemC, ItemC>>}}

NextEdit ==
    \/ \E data \in EditCreateBodies : CreateGenerate(1, data)
    \/ CreateFlush(1)
    \/ CreateCommit(1)
    \/ \E id \in 1..MaxId, body \in EditBodies : UpdateInvoice(id, body)
    \/ \E id \in 1..MaxId : ReadInvoice(id)

SpecEdit == Init /\ [][NextEdit]_vars

(***************************************************************************)
(* The invoice_items table under every handler that writes it (SpecStore): *)
(* two racing creates, updates with and without an items list, deletes and *)
(* bulk deletes.                                                           *)
(***************************************************************************)
\* The invoice_ids lists of bulk-delete requests: unknown and repeated ids
\* included.
BulkRequests == UNION {[1..k -> 1..MaxId] : k \in 0..2}

NextStore ==
    \/ \E p \in Procs, data \in CreateBodies :
          UpcomingNum <= MaxNum /\ CreateGenerate(p, data)
    \/ \E p \in Procs : CreateFlush(p)
    \/ \E p \in Procs : CreateCommit(p)
    \/ \E id \in 1..MaxId, body \in EditBodies : UpdateInvoice(id, body)
    \/ \E id \in 1..MaxId : DeleteInvoice(id)
    \/ \E invoice_ids \in BulkRequests : BulkDelete(invoice_ids)

SpecStore == Init /\ [][NextStore]_vars

(***************************************************************************)
(* Invoices and their clients (SpecClients): clients are created and       *)
(* deleted, invoices are created for and moved to any client_id, and       *)
(* single invoices are exported.  Process 1 sends the invoice requests,    *)
(* the answers to the client requests are kept in resp[2].                 *)
(***************************************************************************)
\* create_client: a new clients row.
CreateClient ==
    /\ lock = 0
    /\ NextRowId(clients) <= MaxId
    /\ clients' = With(clients, NextRowId(clients), Client("Client", "R1", ""))
    /\ resp' = [resp EXCEPT ![2] = "created"]
    /\ UNCHANGED <<settings, invoices, items, lock, pc, req, num, view, doc, export, issued>>

\* delete_client: db.delete(client).  Client.invoices has no delete cascade,
\* so the unit of work sets client_id of the client's invoices to NULL
\* first, which the NOT NULL column refuses: the commit raises and nothing
\* is deleted.  A client without invoices is deleted.
DeleteClient(id) ==
    /\ lock = 0
    /\ id \in DOMAIN clients
    /\ IF \E i \in DOMAIN invoices : invoices[i].client_id = id
       THEN /\ resp' = [resp EXCEPT ![2] = "IntegrityError"]
            /\ UNCHANGED clients
       ELSE /\ resp' = [resp EXCEPT ![2] = "deleted"]
            /\ clients' = Without(clients, id)
    /\ UNCHANGED <<settings, invoices, items, lock, pc, req, num, view, doc, export, issued>>

\* export_xml_invoices when a requested invoice has no clients row:
\* invoice.client is None, generate_peppol_xml(invoice, None, settings)
\* raises AttributeError at client.name and the request is answered 500.
ExportXmlNoClient(ids) ==
    /\ \E k \in 1..Len(ids) :
          ids[k] \in DOMAIN invoices /\ invoices[ids[k]].client_id \notin DOMAIN clients
    /\ export' = [status_code |-> 500]
    /\ UNCHANGED <<settings, invoices, items, lock, pc, req, num, resp, view, doc, clients,
                   issued>>

\* Bodies of create_invoice for every client_id, of a stored client or not.
ClientCreateBodies ==
    {[client_id |-> c, date |-> Date(2025, 1, 5), items |-> <<ItemA>>] : c \in 1..MaxId}

\* Bodies of update_invoice that change client_id.
ClientUpdateBodies == {[client_id |-> c] : c \in 1..MaxId}

NextClients ==
    \/ CreateClient
    \/ \E id \in 1..MaxId : DeleteClient(id)
    \/ \E data \in ClientCreateBodies : UpcomingNum <= MaxNum /\ CreateGenerate(1, data)
    \/ CreateFlush(1)
    \/ CreateCommit(1)
    \/ \E id \in 1..MaxId, body \in ClientUpdateBodies : UpdateInvoice(id, body)
    \/ \E ids \in SingleRequests : ExportXml(ids)
    \/ \E ids \in SingleRequests : ExportXmlNoClient(ids)

SpecClients == Init /\ [][NextClients]_vars

(***************************************************************************)
(* The status column (SpecStatus): invoices are created, updated with a    *)
(* status and read.                                                        *)
(***************************************************************************)
\* Values of the field status of schemas.InvoiceUpdate, an Optional[str]:
\* the two values of the enum and two other strings.
StatusValues == {"sent", "paid", "draft", ""}

\* Bodies of update_invoice that set status.
StatusBodies == {[status |-> v] : v \in StatusValues}

NextStatus ==
    \/ \E data \in CreateBodies : UpcomingNum <= MaxNum /\ CreateGenerate(1, data)
    \/ CreateFlush(1)
    \/ CreateCommit(1)
    \/ \E id \in 1..MaxId, body \in StatusBodies : UpdateInvoice(id, body)
    \/ \E id \in 1..MaxId : ReadInvoice(id)

SpecStatus == Init /\ [][NextStatus]_vars

(***************************************************************************)
(* The Builder on the raw settings rows (SpecBuild): test_xml.py builds    *)
(* the document of a stored invoice from {row.key: row.value}, a dict that *)
(* holds only the keys that have a row.                                    *)
(***************************************************************************)
\* The settings tables: every key without a row, empty, or with a value.
RawSettings ==
    {p @@ e @@ v @@ r :
        p \in Optional("invoice_prefix", {<<>>, <<"N", "C">>}),
        e \in Optional("vat_enabled", {"", "true", "false"}),
        v \in Optional("vat_number", {"", "LV40003"}),
        r \in Optional("reg_number", {"", "40003"})}

\* The clients rows: each optional column empty or filled.
RawClients ==
    {Client("Client", r, v) @@ [postal_code |-> z, legal_address |-> a] :
        r \in {"", "50003"}, v \in {"", "LV50003"},
        z \in {"", "LV-1010"}, a \in {"", "Riga"}}

InitBuild ==
    /\ settings \in RawSettings
    /\ invoices = [i \in {1, 2} |->
                      NewInvoice(Number(DefaultPrefix, i),
                                 [client_id |-> i, date |-> Date(2025, 1, 5)])]
    /\ items = [i \in {1, 2} |-> IF i = 1 THEN <<ItemA, ItemB>> ELSE <<>>]
    /\ clients \in {[i \in {1} |-> c] : c \in RawClients}
    /\ lock = 0
    /\ pc = [p \in Procs |-> "idle"]
    /\ req = [p \in Procs |-> NoBody]
    /\ num = [p \in Procs |-> <<>>]
    /\ resp = [p \in Procs |-> "none"]
    /\ view = NoView
    /\ doc = NoDoc
    /\ export = NoExport
    /\ issued = <<>>

\* test_xml.py on the invoice the query returns first: the client is looked
\* up by the invoice's client_id and the settings are the raw rows.
TestXml(id) ==
    /\ id \in DOMAIN invoices
    /\ LET found == invoices[id].client_id \in DOMAIN clients
       IN  doc' = IF generate_peppol_xml_raises(found, settings)
                  THEN [invoice_id |-> id, error |-> "raised"]
                  ELSE generate_peppol_xml(get_invoice(invoices, items, id),
                                           clients[invoices[id].client_id], settings)
    /\ UNCHANGED <<settings, invoices, items, lock, pc, req, num, resp, view, clients,
                   export, issued>>

NextBuild == \E id \in 1..MaxId : TestXml(id)

SpecBuild == InitBuild /\ [][NextBuild]_vars

(***************************************************************************)
(* Sending to the gateway (SpecSend): send_invoices_eds posts the document *)
(* of every requested invoice to the EDS gateway, whose answers are drawn. *)
(* Texts are sequences of pieces; the Latvian letters of the messages are  *)
(* written without their marks.  The response is kept in `export`,         *)
(* together with the answers the gateway gave (field gateway).             *)
(***************************************************************************)
\* What requests.post can end with: a response (status_code, text) or a
\* requests.RequestException (str(e)).
GatewayAnswers ==
    {[status_code |-> 200, text |-> <<"OK">>],
     [status_code |-> 202, text |-> <<>>],
     [status_code |-> 204, text |-> <<>>],
     [status_code |-> 400, text |-> <<"Invalid XML: ", "cbc:ID">>],
     [exception |-> <<"Connection refused">>]}

\* send_invoice_to_eds(xml_bytes, api_key) when the gateway answers `a`.
send_invoice_to_eds(xml_bytes, api_key, a) ==
    IF "exception" \in DOMAIN a
    THEN [success |-> FALSE,
          error |-> <<"Neizdevas savienoties ar VID EDS: ">> \o a.exception]
    ELSE IF a.status_code \in {200, 201, 202}
    THEN [success |-> TRUE,
          message |-> <<"Veiksmigi nosutits uz EDS">>,
          status_code |-> a.status_code]
    ELSE [success |-> FALSE,
          error |-> <<"EDS API atgrieza kludu (">> \o Decimal(a.status_code) \o <<")">>,
          details |-> a.text,
          status_code |-> a.status_code]

RECURSIVE send_loop(_, _, _, _, _, _)
\* send_invoices_eds, the loop over the found invoices: success_count and
\* errors after the gateway has answered answers[k] for found[k].
send_loop(found, answers, inv, itm, cl, s) ==
    IF found = <<>> THEN [success_count |-> 0, errors |-> <<>>]
    ELSE LET n == Len(found)
             before == send_loop(SubSeq(found, 1, n - 1), SubSeq(answers, 1, n - 1),
                                 inv, itm, cl, s)
             xml_bytes == ET_tostring(generate_peppol_xml(
                              get_invoice(inv, itm, found[n]),
                              cl[inv[found[n]].client_id], s))
             res == send_invoice_to_eds(xml_bytes, s["eds_api_key"], answers[n])
         IN  IF res.success
             THEN [before EXCEPT !.success_count = @ + 1]
             ELSE [before EXCEPT !.errors =
                      Append(@, [invoice_id |-> inv[found[n]].invoice_number,
                                 error |-> res.error])]

\* POST /api/invoices/send-eds with the body {invoice_ids: ids}: 400 without
\* an API key; otherwise every found invoice is built and sent.  (The model
\* sends invoices whose client row is stored.)
SendEds(ids, answers) ==
    /\ \A k \in 1..Len(ids) :
          ids[k] \in DOMAIN invoices => invoices[ids[k]].client_id \in DOMAIN clients
    /\ LET s == get_settings(settings)
           found == SelectSeq(ids, LAMBDA i : i \in DOMAIN invoices)
       IN  IF s["eds_api_key"] = ""
           THEN export' = [status_code |-> 400]
           ELSE /\ Len(answers) = Len(found)
                /\ LET sent == send_loop(found, answers, invoices, items, clients, s)
                   IN  export' = [status_code |-> 200,
                                  success_count |-> sent.success_count,
                                  error_count |-> Len(sent.errors),
                                  errors |-> sent.errors,
                                  requested |-> ids,
                                  gateway |-> answers]
    /\ UNCHANGED <<settings, invoices, items, lock, pc, req, num, resp, view, doc, clients,
                   issued>>

\* The answers of the gateway to the requests of one call.
AnswerLists == UNION {[1..k -> GatewayAnswers] : k \in 0..2}

InitSend ==
    /\ settings \in Optional("eds_api_key", {"", "key"})
    /\ invoices = [i \in {1, 2} |->
                      NewInvoice(Number(DefaultPrefix, i),
                                 [client_id |-> 1, date |-> Date(2025, 1, 5)])]
    /\ items = [i \in {1, 2} |-> IF i = 1 THEN <<ItemA, ItemB>> ELSE <<ItemC>>]
    /\ clients = [i \in {1} |-> Client("Client", "R1", "")]
    /\ lock = 0
    /\ pc = [p \in Procs |-> "idle"]
    /\ req = [p \in Procs |-> NoBody]
    /\ num = [p \in Procs |-> <<>>]
    /\ resp = [p \in Procs |-> "none"]
    /\ view = NoView
    /\ doc = NoDoc
    /\ export = NoExport
    /\ issued = <<>>

NextSend == \E ids \in ExportRequests, answers \in AnswerLists : SendEds(ids, answers)

SpecSend == InitSend /\ [][NextSend]_vars

(***************************************************************************)
(* Requests one after the other (SpecSeq): create_invoice runs from its    *)
(* first statement to its commit without another request in between, the   *)
(* table starts empty, and invoices are deleted and the prefix is changed  *)
(* between the creations.  `issued` records the numbers handed out.        *)
(***************************************************************************)
\* The values PUT /api/settings gives invoice_prefix: one extends the other
\* with a '-'.
SeqPrefixValues == {<<"N", "C">>, <<"N", "C", "-", "A">>}

\* create_invoice(data) as a whole: the number is computed, the row is
\* flushed (IntegrityError for a stored number) and committed with its
\* items.
CreateInvoice(data) ==
    /\ lock = 0
    /\ pc[1] = "idle"
    /\ LET invoice_number == generate_invoice_number(invoices, settings)
           id == NextRowId(invoices)
       IN  IF UniqueViolation(invoices, invoice_number)
           THEN /\ resp' = [resp EXCEPT ![1] = "IntegrityError"]
                /\ UNCHANGED <<invoices, items, issued>>
           ELSE /\ Len(issued) < MaxIssued
                /\ invoices' = With(invoices, id, NewInvoice(invoice_number, data))
                /\ items' = With(items, id, data.items)
                /\ issued' = Append(issued, invoice_number)
                /\ resp' = [resp EXCEPT ![1] = "created"]
    /\ UNCHANGED <<settings, lock, pc, req, num, view, doc, clients, export>>

NextSeq ==
    \/ \E data \in CreateBodies : CreateInvoice(data)
    \/ \E id \in 1..MaxIssued : DeleteInvoice(id)
    \/ \E value \in SeqPrefixValues : SetPrefix(value)

SpecSeq == Init /\ [][NextSeq]_vars

(***************************************************************************)
(* A rejected request and its retries (SpecRetry).  Request 1 is sent once *)
(* and sent again by its caller whenever it is answered IntegrityError;    *)
(* request 2 stands for the competing requests, of which at most MaxIssued *)
(* are sent (`issued` gets one entry, without a number, for each of them). *)
(* Invoices are deleted and the prefix is changed meanwhile.  A request    *)
(* that has started runs on (the handlers are plain functions run to their *)
(* end by the server's thread pool), and the caller of request 1 does      *)
(* retry: weak fairness on these steps.                                    *)
(***************************************************************************)
\* The caller of a rejected create_invoice sends the request again:
\* create_invoice computes the number anew.  The caller's last answer stays
\* IntegrityError until the retry is answered.
Retry(p, data) ==
    /\ pc[p] = "idle"
    /\ resp[p] = "IntegrityError"
    /\ num' = [num EXCEPT ![p] = generate_invoice_number(invoices, settings)]
    /\ req' = [req EXCEPT ![p] = data]
    /\ pc' = [pc EXCEPT ![p] = "generated"]
    /\ UNCHANGED <<settings, invoices, items, lock, resp, view, doc, clients, export,
                   issued>>

\* A competing create_invoice, first statement (as CreateGenerate).
Compete(p, data) ==
    /\ Len(issued) < MaxIssued
    /\ pc[p] = "idle"
    /\ num' = [num EXCEPT ![p] = generate_invoice_number(invoices, settings)]
    /\ issued' = Append(issued, <<>>)
    /\ req' = [req EXCEPT ![p] = data]
    /\ pc' = [pc EXCEPT ![p] = "generated"]
    /\ resp' = [resp EXCEPT ![p] = "none"]
    /\ UNCHANGED <<settings, invoices, items, lock, view, doc, clients, export>>

NextRetry ==
    \/ \E data \in CreateBodies : resp[1] = "none" /\ CreateGenerate(1, data)
    \/ \E data \in CreateBodies : Retry(1, data)
    \/ \E data \in CreateBodies : Compete(2, data)
    \/ \E p \in Procs : CreateFlush(p)
    \/ \E p \in Procs : CreateCommit(p)
    \/ \E id \in 1..MaxId : DeleteInvoice(id)
    \/ \E value \in SeqPrefixValues : SetPrefix(value)

SpecRetry ==
    /\ Init
    /\ [][NextRetry]_vars
    /\ WF_vars(\E data \in CreateBodies : Retry(1, data))
    /\ \A p \in Procs : WF_vars(CreateFlush(p))
    /\ \A p \in Procs : WF_vars(CreateCommit(p))

(***************************************************************************)
(* Invoices with several VAT rates (SpecRates): as SpecCalc, the items     *)
(* drawn from lines of three rates whose totals are not whole cents (and,  *)
(* as before, none of the sums of the model is a rounding tie).            *)
(***************************************************************************)
ItemE == Item(3, 1, 12)         \* 0.3 x 0.01 at 12 %
ItemF == Item(3, 1, 5)          \* 0.3 x 0.01 at 5 %
ItemG == Item(3, 11, 12)        \* 0.3 x 0.11 at 12 %

RateItems == {ItemD, ItemE, ItemF, ItemG}

RateItemLists == UNION {[1..k -> RateItems] : k \in 0..MaxItems}

InitRates ==
    /\ settings \in {[k \in {} |-> 0]} \cup
                    {[k \in {"vat_enabled"} |-> v] : v \in {"true", "false", ""}}
    /\ invoices = [i \in {1, 2} |->
                      NewInvoice(Number(DefaultPrefix, i),
                                 [client_id |-> 1, date |-> Date(2025, 1, 5)])]
    /\ items \in {[i \in {1, 2} |-> IF i = 1 THEN its ELSE <<ItemA>>] :
                     its \in RateItemLists}
    /\ clients = [i \in {1} |-> Client("Client", "R1", "")]
    /\ lock = 0
    /\ pc = [p \in Procs |-> "idle"]
    /\ req = [p \in Procs |-> NoBody]
    /\ num = [p \in Procs |-> <<>>]
    /\ resp = [p \in Procs |-> "none"]
    /\ view = NoView
    /\ doc = NoDoc
    /\ export = NoExport
    /\ issued = <<>>

NextRates ==
    \/ \E id \in DOMAIN invoices : ReadInvoice(id)
    \/ \E ids \in SingleRequests : ExportXml(ids)

SpecRates == InitRates /\ [][NextRates]_vars

(***************************************************************************)
(* Properties of the storage model (Spec), of the allocator (SpecAlloc)    *)
(* and of the money model (SpecCalc).                                      *)
(***************************************************************************)
\* Whether a stored invoice holds the number n.
Stored(n) == \E i \in DOMAIN invoices : invoices[i].invoice_number = n

\* "s starts with pre", character for character.
StartsWith(s, pre) == Len(s) >= Len(pre) /\ SubSeq(s, 1, Len(pre)) = pre

\* The prefix in force: the setting, "NC" when it is empty or was never set.
PrefixInForce ==
    IF "invoice_prefix" \in DOMAIN settings /\ settings["invoice_prefix"] # <<>>
    THEN settings["invoice_prefix"]
    ELSE <<"N", "C">>

\* The ids of the stored invoices whose number starts with "{prefix}-".
WithPrefix(prefix) ==
    {i \in DOMAIN invoices : StartsWith(invoices[i].invoice_number, prefix \o <<"-">>)}

Newest(ids) == CHOOSE i \in ids : \A j \in ids : j <= i

\* The text after the last '-' of s (s holds one).
AfterLastDash(s) ==
    LET k == CHOOSE i \in 1..Len(s) : s[i] = "-" /\ \A j \in (i + 1)..Len(s) : s[j] # "-"
    IN  SubSeq(s, k + 1, Len(s))

AllDigits(s) == s # <<>> /\ \A i \in 1..Len(s) : IsDigit(s[i])

\* C1: in every reachable state, under every interleaving of create_invoice,
\* update_invoice, delete_invoice and changes of the invoice_prefix setting,
\* no two stored invoices have the same invoice_number.
C1_UniqueNumbers ==
    \A i, j \in DOMAIN invoices :
        i # j => invoices[i].invoice_number # invoices[j].invoice_number

\* Two invoices are stored and a racing create_invoice was turned down.
C1_Witness ==
    /\ Cardinality(DOMAIN invoices) >= 2
    /\ \E p \in Procs : resp[p] = "IntegrityError"

\* C2: a create_invoice whose computed number has been stored by a racing
\* request by the time it inserts fails with the uniqueness error, which
\* its caller gets; it stores nothing and does not compute another number
\* (no retry inside create_invoice).  An insert whose number is still free
\* goes on to commit that very number.
C2_RacingInsertRejected ==
    [][\A p \in Procs :
          /\ (pc[p] = "generated" /\ <<pc[p], num[p], resp[p]>>' # <<pc[p], num[p], resp[p]>>)
                => IF Stored(num[p])
                   THEN /\ pc'[p] = "idle"
                        /\ resp'[p] = "IntegrityError"
                        /\ invoices' = invoices
                   ELSE /\ pc'[p] = "flushed"
                        /\ num'[p] = num[p]
                        /\ invoices' = invoices
          /\ (pc[p] = "flushed" /\ pc'[p] # "flushed")
                => /\ ~Stored(num[p])
                   /\ resp'[p] = "created"
                   /\ \E i \in DOMAIN invoices' : invoices'[i].invoice_number = num[p]
      ]_vars

\* Of two requests, one was answered with the stored invoice and the other
\* with the uniqueness error; one invoice is stored.
C2_Witness ==
    \E p, q \in Procs :
        /\ resp[p] = "IntegrityError"
        /\ resp[q] = "created"
        /\ Cardinality(DOMAIN invoices) = 1

\* C3: a create_invoice that fails with the duplicate-number error leaves
\* the invoices and the line items exactly as they were.
C3_FailedCreateStoresNothing ==
    [][\A p \in Procs :
          (resp[p] # "IntegrityError" /\ resp'[p] = "IntegrityError")
              => invoices' = invoices /\ items' = items
      ]_vars

\* A request failed while invoices with line items are stored.
C3_Witness ==
    /\ \E p \in Procs : resp[p] = "IntegrityError"
    /\ \E i \in DOMAIN items : items[i] # <<>>

\* C4: no step changes the invoice_number of a stored invoice: not
\* update_invoice, whatever its body, and not a change of invoice_prefix.
C4_NumberImmutable ==
    [][\A i \in (DOMAIN invoices) \cap (DOMAIN invoices') :
          invoices'[i].invoice_number = invoices[i].invoice_number
      ]_vars

\* An invoice was updated (it is paid) and the prefix setting is no longer
\* the prefix of its number.
C4_Witness ==
    \E i \in DOMAIN invoices :
        /\ invoices[i].status = "paid"
        /\ "invoice_prefix" \in DOMAIN settings
        /\ SubSeq(invoices[i].invoice_number, 1, 2) # settings["invoice_prefix"]

\* C5: if a stored number starts with "{prefix}-", the next number is
\* "{prefix}-" and n+1 in six digits, n being the numeric suffix of the
\* invoice with the highest id among those whose number starts with
\* "{prefix}-".
C5_NextAfterLastWithPrefix ==
    \A p \in Procs :
        (pc[p] = "generated" /\ WithPrefix(PrefixInForce) # {}) =>
            LET suffix == AfterLastDash(invoices[Newest(WithPrefix(PrefixInForce))].invoice_number)
            IN  AllDigits(suffix) =>
                    num[p] = Number(PrefixInForce, DigitsValue(suffix) + 1)

C7_FirstNumberOfPrefix ==
    [][\A p \in Procs :
          (pc[p] = "idle" /\ pc'[p] = "generated" /\ WithPrefix(PrefixInForce) = {})
              => num'[p] = Number(PrefixInForce, 1)
      ]_vars

\* C8: with the invoice_prefix setting empty or never set, every number the
\* allocator returns starts with "NC-".
C8_DefaultPrefixNC ==
    \A p \in Procs :
        (pc[p] = "generated"
           /\ ("invoice_prefix" \notin DOMAIN settings \/ settings["invoice_prefix"] = <<>>))
        => StartsWith(num[p], <<"N", "C", "-">>)

\* A number was computed while the setting is stored as the empty string
\* and invoices of another prefix exist.
C8_Witness ==
    \E p \in Procs :
        /\ pc[p] = "generated"
        /\ "invoice_prefix" \in DOMAIN settings
        /\ settings["invoice_prefix"] = <<>>
        /\ \E i \in DOMAIN invoices : ~StartsWith(invoices[i].invoice_number, <<"N", "C", "-">>)

\* C9: for an invoice exported with VAT enabled, the document's
\* TaxExclusiveAmount, TaxTotal TaxAmount and PayableAmount are the
\* invoice's subtotal, vat_amount and grand_total printed to 2 decimals.
C9_BuilderAgreesWithCalculator ==
    (doc.invoice_id # 0 /\ get_settings(settings)["vat_enabled"] = "true") =>
        LET its == items[doc.invoice_id]
        IN  /\ doc.TaxExclusiveAmount = Fmt2(subtotal(its), 1)
            /\ doc.TaxAmount = Fmt2(vat_amount(its), 1)
            /\ doc.PayableAmount = Fmt2(grand_total(its), 1)

\* The integer nearest to x / scale (x / scale is not a tie).
Nearest(x, scale) ==
    CHOOSE c \in (x \div scale)..(x \div scale + 1) :
        2 * c * scale - scale < 2 * x /\ 2 * x < 2 * c * scale + scale

\* round2(quantity * unit_price) of a line, in cents.
LineTotal(it) == Nearest(it.quantity * it.unit_price, 10)

\* round2(line total * vat_rate / 100) of a line, in cents.
LineVat(it) == Nearest(LineTotal(it) * it.vat_rate, 100)

\* C10: the subtotal and the vat_amount of an invoice that is read are the
\* sums of the line totals and of the line VAT amounts, each line already
\* rounded to cents (line total = round2(quantity * unit_price), line VAT =
\* round2(line total * vat_rate / 100)), and grand_total is their sum; for
\* the items [2 x 10.00 at 21 %, 1 x 5.00 at 0 %] they are 25.00, 4.20 and
\* 29.20.
C10_PerLineRounding ==
    view.id # 0 =>
        LET its == items[view.id]
            sub == SumSeq([i \in 1..Len(its) |-> LineTotal(its[i])])
            vat == SumSeq([i \in 1..Len(its) |-> LineVat(its[i])])
        IN  /\ view.subtotal = sub
            /\ view.vat_amount = vat
            /\ view.grand_total = sub + vat
            /\ its = <<ItemA, ItemB>> =>
                   /\ view.subtotal = 2500
                   /\ view.vat_amount = 420
                   /\ view.grand_total = 2920

\* An invoice was read whose vat_amount is not what rounding the unrounded
\* sum of the lines' VAT gives.
C10_Witness ==
    /\ view.id # 0
    /\ LET its == items[view.id]
       IN  view.vat_amount #
               Nearest(SumSeq([i \in 1..Len(its) |->
                          its[i].quantity * its[i].unit_price * its[i].vat_rate]), 1000)

\* The money columns that an invoices row would hold if a total were stored.
StoredTotals(row) == (DOMAIN row) \cap {"subtotal", "vat_amount", "grand_total"}

\* C11: in every state reached by creating invoices and replacing their
\* items with update_invoice, what a read of a stored invoice returns has
\* grand_total = subtotal + vat_amount (in cents), subtotal and vat_amount
\* being computed from the items stored at that moment; no invoices row
\* holds a total; and the same equation holds in every response read so far.
C11_GrandTotalIsSum ==
    /\ \A i \in DOMAIN invoices :
          LET r == InvoiceRead(i, invoices[i], items[i])
          IN  /\ r.grand_total = r.subtotal + r.vat_amount
              /\ r.subtotal = SumSeq([k \in 1..Len(items[i]) |-> LineTotal(items[i][k])])
              /\ r.vat_amount = SumSeq([k \in 1..Len(items[i]) |-> LineVat(items[i][k])])
              /\ StoredTotals(invoices[i]) = {}
    /\ view.id # 0 => view.grand_total = view.subtotal + view.vat_amount

\* An invoice whose items were replaced after it was read: the response
\* read before shows other totals than a read would now, and the VAT
\* counts in the total.
C11_Witness ==
    /\ view.id # 0
    /\ view.id \in DOMAIN invoices
    /\ view.vat_amount # 0
    /\ view.grand_total # grand_total(items[view.id])
    /\ vat_amount(items[view.id]) # 0

\* Whether VAT is globally enabled: the vat_enabled setting is "true", which
\* it also is when it was never set.
VatEnabled == "vat_enabled" \in DOMAIN settings => settings["vat_enabled"] = "true"

\* C12: in a document built while VAT is globally disabled, every
\* TaxSubtotal and every InvoiceLine has the tax category E and the percent
\* 0.00, whatever rates the items store.
C12_DisabledVatAllExempt ==
    (doc.invoice_id # 0 /\ ~VatEnabled) =>
        /\ \A j \in 1..Len(doc.TaxSubtotals) :
              /\ doc.TaxSubtotals[j].ID = "E"
              /\ doc.TaxSubtotals[j].Percent = <<"0", ".", "0", "0">>
        /\ \A i \in 1..Len(doc.InvoiceLines) :
              /\ doc.InvoiceLines[i].TaxCategoryID = "E"
              /\ doc.InvoiceLines[i].Percent = <<"0", ".", "0", "0">>

\* A document built with VAT disabled for an invoice of several lines, one
\* of which stores the rate 21.
C12_Witness ==
    /\ doc.invoice_id # 0
    /\ ~VatEnabled
    /\ Len(doc.InvoiceLines) >= 2
    /\ Len(doc.TaxSubtotals) >= 1
    /\ \E i \in 1..Len(items[doc.invoice_id]) : items[doc.invoice_id][i].vat_rate = 21

\* The effective VAT rate of line i of the invoice: the stored rate, 0 when
\* VAT is disabled.
EffectiveRate(id, i) == IF VatEnabled THEN items[id][i].vat_rate ELSE 0

\* C13: a document has exactly one TaxSubtotal per distinct effective VAT
\* rate of the invoice's lines; the block of a rate prints the rate as its
\* Percent, as TaxableAmount the sum of quantity * unit_price over the lines
\* of that rate, as TaxAmount the sum of their VAT, and has the category S
\* when the rate is above 0, E otherwise.  Lines with the rates 21, 21, 0
\* give two blocks.
C13_OneSubtotalPerRate ==
    doc.invoice_id # 0 =>
        LET id == doc.invoice_id
            its == items[id]
            rates == {EffectiveRate(id, i) : i \in 1..Len(its)}
            blocks == doc.TaxSubtotals
            base(r) == SumSeq([i \in 1..Len(its) |->
                          IF EffectiveRate(id, i) = r
                          THEN its[i].quantity * its[i].unit_price * 100 ELSE 0])
            tax(r) == SumSeq([i \in 1..Len(its) |->
                         IF EffectiveRate(id, i) = r
                         THEN its[i].quantity * its[i].unit_price * r ELSE 0])
        IN  /\ Len(blocks) = Cardinality(rates)
            /\ \A r \in rates :
                  \E j \in 1..Len(blocks) :
                      /\ blocks[j].Percent = Fmt2(r * 100, 1)
                      /\ blocks[j].TaxableAmount = Fmt2(base(r), 1000)
                      /\ blocks[j].TaxAmount = Fmt2(tax(r), 1000)
                      /\ blocks[j].ID = IF r > 0 THEN "S" ELSE "E"
            /\ (Len(its) = 3 /\ \A i \in 1..3 : EffectiveRate(id, i) = <<21, 21, 0>>[i])
                   => Len(blocks) = 2

\* A document for an invoice whose lines have the rates 21, 21 and 0, the
\* two lines at 21 % being different items.
C13_Witness ==
    /\ doc.invoice_id # 0
    /\ Len(items[doc.invoice_id]) = 3
    /\ \A i \in 1..3 : EffectiveRate(doc.invoice_id, i) = <<21, 21, 0>>[i]
    /\ items[doc.invoice_id][1] # items[doc.invoice_id][2]
    /\ Len(doc.TaxSubtotals) = 2

RECURSIVE XmlUnescape(_)
\* The text an XML parser gives back for serialized element text.
XmlUnescape(t) ==
    IF t = <<>> THEN <<>>
    ELSE IF StartsWith(t, <<"&", "a", "m", "p", ";">>)
         THEN <<"&">> \o XmlUnescape(SubSeq(t, 6, Len(t)))
    ELSE IF StartsWith(t, <<"&", "l", "t", ";">>)
         THEN <<"<">> \o XmlUnescape(SubSeq(t, 5, Len(t)))
    ELSE IF StartsWith(t, <<"&", "g", "t", ";">>)
         THEN <<">">> \o XmlUnescape(SubSeq(t, 5, Len(t)))
    ELSE <<Head(t)>> \o XmlUnescape(Tail(t))

\* The date that a text 'YYYY-MM-DD' stands for.
ParseIsoDate(t) ==
    LET parts == SplitDash(t)
    IN  [year |-> DigitsValue(parts[1]), month |-> DigitsValue(parts[2]),
         day |-> DigitsValue(parts[3])]

\* What parsing a serialized document recovers: the text of cbc:ID, the
\* IssueDate, the number of InvoiceLine elements and the PayableAmount.
ParseXml(content) ==
    [invoice_number |-> XmlUnescape(content.ID),
     date |-> ParseIsoDate(XmlUnescape(content.IssueDate)),
     line_count |-> Len(content.InvoiceLines),
     grand_total |-> XmlUnescape(content.PayableAmount)]

\* C14: the XML that an export of one invoice returns, parsed back, gives
\* the invoice's invoice_number, its date, the number of its line items and
\* its grand_total printed to 2 decimals.
C14_RoundTrip ==
    (export.status_code = 200 /\ export.media_type = "application/xml") =>
        LET id == doc.invoice_id
            parsed == ParseXml(export.content)
        IN  /\ parsed.invoice_number = invoices[id].invoice_number
            /\ parsed.date = invoices[id].date
            /\ parsed.line_count = Len(items[id])
            /\ parsed.grand_total = Fmt2(grand_total(items[id]), 1)

StoredPrefix ==
    IF "invoice_prefix" \in DOMAIN settings THEN settings["invoice_prefix"] ELSE <<>>

\* C16: the document identifier is "{invoice_prefix}-{id, six digits}", and
\* with the invoice_prefix setting missing or empty the prefix written is
\* "NC", the fallback of the Allocator.
C16_DocumentIdFallsBackToNC ==
    doc.invoice_id # 0 =>
        doc.ID = (IF StoredPrefix = <<>> THEN <<"N", "C">> ELSE StoredPrefix)
                     \o <<"-">> \o Format06d(doc.invoice_id)

\* The stored field of the supplier, "" when the row is missing.
SupplierField(key) == IF key \in DOMAIN settings THEN settings[key] ELSE ""

\* The endpoint the rule of C17 gives for a party with these numbers.
EndpointByRule(vat_number, reg_number) ==
    IF vat_number # "" THEN [schemeID |-> "9936", text |-> vat_number]
    ELSE IF reg_number # "" THEN [schemeID |-> "0184", text |-> reg_number]
    ELSE [schemeID |-> "UNKNOWN", text |-> "UNKNOWN"]

\* C17: the supplier's endpoint is the VAT number under scheme 9936, else
\* the registration number under scheme 0184, else UNKNOWN under the scheme
\* UNKNOWN (not under 0184); the customer's endpoint follows the same rule
\* with the client's numbers.
C17_EndpointSchemeRule ==
    doc.invoice_id # 0 =>
        /\ doc.SupplierEndpointID =
               EndpointByRule(SupplierField("vat_number"), SupplierField("reg_number"))
        /\ doc.CustomerEndpointID =
               EndpointByRule(clients[invoices[doc.invoice_id].client_id].vat_number,
                              clients[invoices[doc.invoice_id].client_id].reg_number)

\* C18: the supplier's PartyTaxScheme is in the document exactly when VAT is
\* enabled and the issuer's VAT number is not empty; the customer's exactly
\* when the client's VAT number is not empty, whatever the vat_enabled
\* setting is.
C18_PartyTaxSchemeRule ==
    doc.invoice_id # 0 =>
        /\ Len(doc.SupplierPartyTaxScheme) =
               (IF VatEnabled /\ SupplierField("vat_number") # "" THEN 1 ELSE 0)
        /\ \A j \in 1..Len(doc.SupplierPartyTaxScheme) :
               doc.SupplierPartyTaxScheme[j].CompanyID = SupplierField("vat_number")
        /\ Len(doc.CustomerPartyTaxScheme) =
               (IF clients[invoices[doc.invoice_id].client_id].vat_number # ""
                THEN 1 ELSE 0)
        /\ \A j \in 1..Len(doc.CustomerPartyTaxScheme) :
               doc.CustomerPartyTaxScheme[j].CompanyID =
                   clients[invoices[doc.invoice_id].client_id].vat_number

\* VAT is disabled and both parties have a VAT number: the document has the
\* customer's block and not the supplier's.
C18_Witness ==
    /\ doc.invoice_id # 0
    /\ ~VatEnabled
    /\ SupplierField("vat_number") # ""
    /\ doc.SupplierPartyTaxScheme = <<>>
    /\ Len(doc.CustomerPartyTaxScheme) = 1

\* The invoices a request exports: the requested ids that are stored.
Exported(ids) == {ids[k] : k \in 1..Len(ids)} \cap DOMAIN invoices

\* The name the claim gives the file of an invoice.
EInvoiceName(id) ==
    <<"E", "-", "I", "n", "v", "o", "i", "c", "e", "_">> \o StoredPrefix
        \o <<"-">> \o invoices[id].invoice_number \o <<".", "x", "m", "l">>

\* C19: an export of exactly one invoice answers with a single XML file;
\* an export of several answers with a zip archive holding exactly one entry
\* per exported invoice, named E-Invoice_{prefix}-{invoice_number}.xml, so
\* that no two entries share a name; this for every list of requested ids,
\* repeated and unknown ids included.
C19_OneFilePerInvoice ==
    [][\A ids \in ExportRequests :
          (ExportXml(ids) /\ Exported(ids) # {}) =>
              /\ export'.status_code = 200
              /\ IF Cardinality(Exported(ids)) = 1
                 THEN /\ export'.media_type = "application/xml"
                      /\ \A id \in Exported(ids) : export'.filename = EInvoiceName(id)
                 ELSE /\ export'.media_type = "application/zip"
                      /\ Len(export'.entries) = Cardinality(Exported(ids))
                      /\ \A id \in Exported(ids) :
                            \E k \in 1..Len(export'.entries) :
                                export'.entries[k].filename = EInvoiceName(id)
                      /\ \A k, l \in 1..Len(export'.entries) :
                            k # l => export'.entries[k].filename # export'.entries[l].filename
      ]_vars

\* C20: in every state reachable by create_invoice, update_invoice (with
\* or without an items list), delete_invoice and bulk delete, every stored
\* line item belongs to an invoice that is stored.
C20_NoOrphanItems ==
    \A i \in DOMAIN items : items[i] # <<>> => i \in DOMAIN invoices

\* An invoice that was created with items has been deleted since, and a
\* request has failed at its flush.
C20_Witness ==
    /\ resp[1] = "created"
    /\ resp[2] = "IntegrityError"
    /\ DOMAIN invoices = {}

\* C21: every stored invoice references a client that is stored, in every
\* state reachable by create_invoice, update_invoice (client_id included)
\* and delete_client; hence no export fails for an absent client.
C21_InvoiceHasClient ==
    /\ \A i \in DOMAIN invoices : invoices[i].client_id \in DOMAIN clients
    /\ export.status_code # 500

\* C22: the status of every stored invoice is sent or paid: a new invoice
\* starts as sent and no update_invoice stores another value.
C22_StatusIsSentOrPaid ==
    \A i \in DOMAIN invoices : invoices[i].status \in {"sent", "paid"}

Sent == export.status_code = 200 /\ "gateway" \in DOMAIN export

\* The gateway answers of the last call that were not a 2xx response, in
\* the order of the call.
NotAccepted ==
    SelectSeq(export.gateway,
              LAMBDA a : "status_code" \in DOMAIN a => a.status_code \notin 200..299)

\* C24: every gateway answer with a 2xx status counts as a success, every
\* other answer is reported with the gateway's error text verbatim, and
\* success_count + error_count is the number of requested ids that resolve
\* to stored invoices.
C24_GatewayOutcome ==
    Sent =>
        /\ export.success_count + export.error_count =
               Len(SelectSeq(export.requested, LAMBDA i : i \in DOMAIN invoices))
        /\ export.error_count = Len(NotAccepted)
        /\ Len(export.errors) = Len(NotAccepted)
        /\ \A k \in 1..Len(NotAccepted) :
               "status_code" \in DOMAIN NotAccepted[k]
                   => export.errors[k].error = NotAccepted[k].text

\* The documents of the last export: the single file, or the entries of the
\* archive.
ExportedContents ==
    IF export.status_code # 200 \/ "media_type" \notin DOMAIN export THEN {}
    ELSE IF export.media_type = "application/xml" THEN {export.content}
    ELSE {export.entries[k].content : k \in 1..Len(export.entries)}

\* C25: every serialized e-invoice is UTF-8 bytes that start with an XML
\* declaration and bind exactly three namespaces: the unprefixed default
\* namespace Invoice-2 and the prefixes cac and cbc for
\* CommonAggregateComponents-2 and CommonBasicComponents-2.
C25_DeclarationAndNamespaces ==
    \A c \in ExportedContents :
        /\ c.encoding = "UTF-8"
        /\ Len(c.declaration) > 0
        /\ c.declaration[1] = "<?xml version='1.0' encoding='"
        /\ c.declaration[2] = "UTF-8"
        /\ c.xmlns =
               {[prefix |-> "",
                 uri |-> "urn:oasis:names:specification:ubl:schema:xsd:Invoice-2"],
                [prefix |-> "cac",
                 uri |-> "urn:oasis:names:specification:ubl:schema:xsd:CommonAggregateComponents-2"],
                [prefix |-> "cbc",
                 uri |-> "urn:oasis:names:specification:ubl:schema:xsd:CommonBasicComponents-2"]}

\* An archive of two documents was exported, one of them without any
\* PartyTaxScheme.
C25_Witness ==
    /\ Cardinality(ExportedContents) = 2
    /\ \E c \in ExportedContents :
           c.SupplierPartyTaxScheme = <<>> /\ c.CustomerPartyTaxScheme = <<>>

\* C26: requests running one after the other, on a table that holds only
\* numbers the allocator produced: after any creations, deletions and
\* changes of invoice_prefix (between NC and NC-A too), the number the
\* allocator computes is not stored, so that no create_invoice fails on a
\* duplicate.
C26_ComputedNumberIsFree ==
    /\ ~Stored(generate_invoice_number(invoices, settings))
    /\ resp[1] # "IntegrityError"

\* C27: with the prefix never changed, over any creations and deletions a
\* number that was assigned to an invoice is not assigned to a later
\* invoice, also after the invoice that held it was deleted.
C27_NumberNeverReused ==
    DOMAIN settings = {} =>
        \A k, l \in 1..Len(issued) : k # l => issued[k] # issued[l]

\* C28: a request that was rejected because a racing request took its
\* number, and that its caller retries, is eventually committed; it is not
\* rejected on every attempt forever.
C28_RetryMakesProgress ==
    (resp[1] = "IntegrityError") ~> (resp[1] = "created")

\* The amount a printed text "d.dd" stands for, in cents.
AmountCents(text) == DigitsValue(SelectSeq(text, LAMBDA ch : ch # "."))

\* C29: the totals printed in an e-invoice agree as printed:
\* TaxInclusiveAmount = TaxExclusiveAmount + TaxTotal/TaxAmount,
\* PayableAmount = TaxInclusiveAmount, and LegalMonetaryTotal's
\* LineExtensionAmount is the sum of the lines' LineExtensionAmounts.
C29_PrintedTotalsAgree ==
    doc.invoice_id # 0 =>
        /\ AmountCents(doc.TaxInclusiveAmount) =
               AmountCents(doc.TaxExclusiveAmount) + AmountCents(doc.TaxAmount)
        /\ doc.PayableAmount = doc.TaxInclusiveAmount
        /\ AmountCents(doc.LineExtensionAmount) =
               SumSeq([i \in 1..Len(doc.InvoiceLines) |->
                          AmountCents(doc.InvoiceLines[i].LineExtensionAmount)])

\* C30: the TaxSubtotal blocks printed in an e-invoice add up to the printed
\* totals: their TaxAmounts to TaxTotal/TaxAmount, their TaxableAmounts to
\* TaxExclusiveAmount, whatever the mix of VAT rates.
C30_SubtotalsAddUp ==
    doc.invoice_id # 0 =>
        /\ SumSeq([j \in 1..Len(doc.TaxSubtotals) |->
                      AmountCents(doc.TaxSubtotals[j].TaxAmount)]) =
               AmountCents(doc.TaxAmount)
        /\ SumSeq([j \in 1..Len(doc.TaxSubtotals) |->
                      AmountCents(doc.TaxSubtotals[j].TaxableAmount)]) =
               AmountCents(doc.TaxExclusiveAmount)

====
